---- MODULE Spec2Model ----
(***************************************************************************)
(* Group service of wise-old-man: groups, memberships and roles over a     *)
(* relational store (Group, Membership, Player), the score heuristic and   *)
(* the per-player group listing.                                           *)
(*                                                                         *)
(* Strings of the program whose characters matter (group names, clan chat) *)
(* are sequences of one-character strings; usernames and roles are atoms.  *)
(***************************************************************************)
EXTENDS Integers, Sequences, FiniteSets, Bags, TLC

VARIABLES Group, Membership, Player, nextGroupId, pending, args, result

vars == <<Group, Membership, Player, nextGroupId, pending, args, result>>

(***************************************************************************)
(* Bounds and input sets                                                   *)
(***************************************************************************)
MaxGroupId == 2
MaxLen == 2
MaxPending == 2

Null == <<"NULL">>
NoRet == [none |-> TRUE]

RawNames == {<<"a", "_", "b">>, <<"a", "-", "b">>, <<"c", " ">>}
ClanChats == {<<"c", "_">>}
Usernames == {"a", "A", "b"}
RoleInputs == {"", "leader"}
Roles == {"member", "leader"}
Codes == {1, 2}
GroupIds == 1..MaxGroupId

MemberEntries == [username : Usernames, role : RoleInputs]

SeqsUpTo(S, n) == UNION {[1..k -> S] : k \in 0..n}

\* an optional argument: given = FALSE is JavaScript's undefined
Undefined == [given |-> FALSE, list |-> <<>>]
Given(l) == [given |-> TRUE, list |-> l]

(***************************************************************************)
(* Pure helpers                                                            *)
(***************************************************************************)
RECURSIVE TrimLeft(_)
TrimLeft(s) == IF s # <<>> /\ Head(s) = " " THEN TrimLeft(Tail(s)) ELSE s

RECURSIVE TrimRight(_)
TrimRight(s) ==
  IF s # <<>> /\ s[Len(s)] = " " THEN TrimRight(SubSeq(s, 1, Len(s) - 1)) ELSE s

Trim(s) == TrimRight(TrimLeft(s))

ReplaceChar(s, from, to) == [i \in 1..Len(s) |-> IF s[i] = from THEN to ELSE s[i]]

\* / +(?= )/g replaced by '': every space that is followed by a space goes
CollapseSpaces(s) ==
  LET keep(i) == ~(s[i] = " " /\ i < Len(s) /\ s[i + 1] = " ")
      F[i \in 0..Len(s)] ==
        IF i = 0 THEN <<>>
        ELSE IF keep(i) THEN Append(F[i - 1], s[i]) ELSE F[i - 1]
  IN F[Len(s)]

\* sanitizeName without .replace(/ +(?= )/g, ''): runs of spaces stay
sanitizeName_NoCollapse(name) ==
  Trim(ReplaceChar(ReplaceChar(name, "_", " "), "-", " "))

sanitizeName(name) ==
  Trim(CollapseSpaces(ReplaceChar(ReplaceChar(name, "_", " "), "-", " ")))

\* playerService.sanitize
sanitize(text) == Trim(ReplaceChar(ReplaceChar(text, "_", " "), "-", " "))

\* playerService.standardize: the canonical, lowercase username
standardize(username) ==
  CASE username = "A" -> "a"
    [] username = "B" -> "b"
    [] OTHER -> username

\* playerService.isValidUsername
isValidUsername(username) == standardize(username) \in {"a", "b", "c"}

\* util/verification
hashOf(code) == code + 100
verifyCode(hash, code) == hashOf(code) = hash

Range(s) == {s[i] : i \in 1..Len(s)}

toLowerCase(s) == standardize(s)

\* _.uniqBy(list, key): the first element of every key, in order; key is the
\* iteratee, given as a function on the elements of the list
uniqBy(list, key) ==
  LET F[i \in 0..Len(list)] ==
        IF i = 0 THEN <<>>
        ELSE IF \E j \in 1..(i - 1) : key[list[j]] = key[list[i]]
             THEN F[i - 1]
             ELSE Append(F[i - 1], list[i])
  IN F[Len(list)]


(***************************************************************************)
(* The store.  db = [Group, Membership, Player, nextGroupId]               *)
(*   Group      set of rows [id, name, clanChat, verificationHash,         *)
(*              verified, score]                                           *)
(*   Membership bag of rows [groupId, playerId, role];                     *)
(*              (groupId, playerId) is the primary key                     *)
(*   Player     set of rows [id, username]                                 *)
(***************************************************************************)
DB == [Group |-> Group, Membership |-> Membership, Player |-> Player,
       nextGroupId |-> nextGroupId]

GroupFindOneByName(db, name) == {g \in db.Group : g.name = name}
GroupFindOneById(db, id) == {g \in db.Group : g.id = id}

RowsOf(db, groupId) == {m \in DOMAIN db.Membership : m.groupId = groupId}

RestrictBag(B, S) == [r \in S |-> B[r]]

\* Membership.destroy({ where: { groupId } })
MembershipDestroy(db, groupId) ==
  [db EXCEPT !.Membership =
     RestrictBag(db.Membership, DOMAIN db.Membership \ RowsOf(db, groupId))]

HasKey(M, row) ==
  \E r \in DOMAIN M : r.groupId = row.groupId /\ r.playerId = row.playerId

\* MembershipBulkCreate on a table that has lost its key: every row goes in
MembershipBulkCreate_NoKey(M, rows, ignoreDuplicates) ==
  LET F[i \in 0..Len(rows)] ==
        IF i = 0 THEN M ELSE F[i - 1] (+) SetToBag({rows[i]})
  IN [ok |-> TRUE, M |-> F[Len(rows)]]

\* INSERT of rows under the primary key (groupId, playerId): with
\* ignoreDuplicates a conflicting row is skipped, without it the statement
\* fails and inserts nothing
MembershipBulkCreate(M, rows, ignoreDuplicates) ==
  LET F[i \in 0..Len(rows)] ==
        IF i = 0 THEN [ok |-> TRUE, M |-> M]
        ELSE LET prev == F[i - 1]
             IN IF HasKey(prev.M, rows[i])
                THEN [ok |-> prev.ok /\ ignoreDuplicates, M |-> prev.M]
                ELSE [ok |-> prev.ok, M |-> prev.M (+) SetToBag({rows[i]})]
      out == F[Len(rows)]
  IN IF out.ok THEN out ELSE [ok |-> FALSE, M |-> M]

\* playerService.findAllOrCreate: one player per username, in input order
findAllOrCreate(P, usernames) ==
  LET F[i \in 0..Len(usernames)] ==
        IF i = 0 THEN [P |-> P, players |-> <<>>]
        ELSE LET prev == F[i - 1]
                 u == standardize(usernames[i])
                 found == {p \in prev.P : p.username = u}
             IN IF found # {}
                THEN [P |-> prev.P,
                      players |-> Append(prev.players, CHOOSE p \in found : TRUE)]
                ELSE LET new == [id |-> Cardinality(prev.P) + 1, username |-> u]
                     IN [P |-> prev.P \cup {new},
                         players |-> Append(prev.players, new)]
  IN F[Len(usernames)]

\* playerService.findAll: the tracked players among the usernames
findAll(P, usernames) ==
  {p \in P : \E i \in 1..Len(usernames) : standardize(usernames[i]) = p.username}

\* group.getMembers(): the players of the group with their membership row
GroupGetMembers(db, groupId) ==
  {[id |-> p.id, username |-> p.username, role |-> m.role] :
     <<p, m>> \in {pm \in db.Player \X RowsOf(db, groupId) : pm[1].id = pm[2].playerId}}

Throw(db, msg) == [db |-> db, status |-> "BadRequestError", msg |-> msg, ret |-> NoRet]
StorageError(db) == [db |-> db, status |-> "StorageError", msg |-> "", ret |-> NoRet]
Ok(db, ret) == [db |-> db, status |-> "ok", msg |-> "", ret |-> ret]

(***************************************************************************)
(* setMembers / getMembers                                                 *)
(***************************************************************************)
\* role: members[i].role || 'member', i the index in the list of players
newMemberships(group, members, players) ==
  [i \in 1..Len(players) |->
     [playerId |-> players[i].id,
      groupId |-> group.id,
      role |-> IF members[i].role # "" THEN members[i].role ELSE "member"]]

setMembers(db, group, members) ==
  LET names == [i \in 1..Len(members) |-> members[i].username]
      uniqueNames == uniqBy(names, [m \in Range(names) |-> toLowerCase(m)])
      fc == findAllOrCreate(db.Player, uniqueNames)
      rows == newMemberships(group, members, fc.players)
      db1 == MembershipDestroy([db EXCEPT !.Player = fc.P], group.id)
      db2 == [db1 EXCEPT !.Membership =
                MembershipBulkCreate(db1.Membership, rows, TRUE).M]
  IN Ok(db2, GroupGetMembers(db2, group.id))

getMembers(db, groupId) ==
  {[id |-> p.id, username |-> p.username, role |-> m.role] :
     <<p, m>> \in {pm \in db.Player \X RowsOf(db, groupId) : pm[1].id = pm[2].playerId}}

(***************************************************************************)
(* create / edit / destroy                                                 *)
(***************************************************************************)
sanitizedClanChat(clanChat) == IF Len(clanChat) > 0 THEN sanitize(clanChat) ELSE Null

invalidUsernames(members) ==
  {members[i].username : i \in {j \in 1..Len(members) : ~isValidUsername(members[j].username)}}

\* Group.create: a new row, its id from the sequence
GroupCreate(db, name, clanChat, verificationHash) ==
  LET group == [id |-> db.nextGroupId, name |-> name, clanChat |-> clanChat,
                verificationHash |-> verificationHash,
                verified |-> FALSE, score |-> 0]
  IN [db |-> [db EXCEPT !.Group = @ \cup {group}, !.nextGroupId = @ + 1],
      group |-> group]

\* group.update(values): an undefined value (given = FALSE) keeps the column
GroupUpdate(db, group, name, clanChat) ==
  LET new(g) == [g EXCEPT !.name = IF name.given THEN name.list ELSE @,
                          !.clanChat = IF clanChat.given THEN clanChat.list ELSE @]
  IN [db EXCEPT !.Group = {IF g.id = group.id THEN new(g) ELSE g : g \in @}]

\* group.destroy(): the memberships of the group go with it
GroupDestroy(db, group) ==
  [MembershipDestroy(db, group.id) EXCEPT !.Group = {g \in @ : g.id # group.id}]

\* create, up to the lookup of a group of that name
createCheck(db, name) ==
  IF name = <<>> THEN Throw(db, "Invalid group name.")
  ELSE IF GroupFindOneByName(db, sanitizeName(name)) # {}
       THEN Throw(db, "Group name is already taken.")
       ELSE Ok(db, NoRet)

\* create, from the validation of the members on
createWrite(db, sanitizedName, clanChat, members, verificationCode) ==
  IF members.given /\ \E i \in 1..Len(members.list) : members.list[i].username = ""
  THEN Throw(db, "Invalid members list. Each array element must have a username key.")
  ELSE IF members.given /\ invalidUsernames(members.list) # {}
  THEN Throw(db, "Invalid usernames")
  ELSE LET c == GroupCreate(db, sanitizedName, sanitizedClanChat(clanChat),
                            hashOf(verificationCode))
       IN IF ~members.given THEN Ok(c.db, {})
          ELSE setMembers(c.db, c.group, members.list)

create(db, name, clanChat, members, verificationCode) ==
  LET chk == createCheck(db, name)
  IN IF chk.status # "ok" THEN chk
     ELSE createWrite(db, sanitizeName(name), clanChat, members, verificationCode)

\* edit, up to the lookup of another group of that name
editCheck(db, id, name, clanChat, verificationCode, members) ==
  IF verificationCode = 0 THEN Throw(db, "Invalid verification code.")
  ELSE IF name = <<>> /\ ~members.given /\ clanChat = <<>>
  THEN Throw(db, "You must either include a new name, clan chat or members list.")
  ELSE IF name # <<>>
          /\ \E g \in GroupFindOneByName(db, sanitizeName(name)) : g.id # id
  THEN Throw(db, "Group name is already taken.")
  ELSE Ok(db, NoRet)

\* edit, from the lookup of the group on
editWrite(db, id, name, clanChat, verificationCode, members) ==
  LET found == GroupFindOneById(db, id)
      group == CHOOSE g \in found : TRUE
  IN IF found = {} THEN Throw(db, "Group was not found.")
     ELSE IF ~verifyCode(group.verificationHash, verificationCode)
     THEN Throw(db, "Incorrect verification code.")
     ELSE IF members.given /\ invalidUsernames(members.list) # {}
     THEN Throw(db, "Invalid usernames")
     ELSE LET s == IF members.given THEN setMembers(db, group, members.list)
                   ELSE Ok(db, GroupGetMembers(db, id))
          IN IF name # <<>> \/ clanChat # <<>>
             THEN LET u == GroupUpdate(s.db, group,
                             IF name # <<>> THEN Given(sanitizeName(name)) ELSE Undefined,
                             Given(sanitizedClanChat(clanChat)))
                  IN Ok(u, s.ret)
             ELSE s

edit(db, id, name, clanChat, verificationCode, members) ==
  LET chk == editCheck(db, id, name, clanChat, verificationCode, members)
  IN IF chk.status # "ok" THEN chk
     ELSE editWrite(db, id, name, clanChat, verificationCode, members)

\* destroy without the check of the verification code
destroy_NoVerify(db, id, verificationCode) ==
  LET found == GroupFindOneById(db, id)
      group == CHOOSE g \in found : TRUE
  IN IF verificationCode = 0 THEN Throw(db, "Invalid verification code.")
     ELSE IF found = {} THEN Throw(db, "Group was not found.")
     ELSE Ok(GroupDestroy(db, group), group.name)

destroy(db, id, verificationCode) ==
  LET found == GroupFindOneById(db, id)
      group == CHOOSE g \in found : TRUE
  IN IF verificationCode = 0 THEN Throw(db, "Invalid verification code.")
     ELSE IF found = {} THEN Throw(db, "Group was not found.")
     ELSE IF ~verifyCode(group.verificationHash, verificationCode)
     THEN Throw(db, "Incorrect verification code.")
     ELSE Ok(GroupDestroy(db, group), group.name)

(***************************************************************************)
(* addMembers / removeMembers / changeRole                                 *)
(***************************************************************************)
UpdateRole(M, groupId, playerId, role) ==
  LET hit == {r \in DOMAIN M : r.groupId = groupId /\ r.playerId = playerId}
      rest == RestrictBag(M, DOMAIN M \ hit)
      RECURSIVE Put(_, _)
      Put(B, S) ==
        IF S = {} THEN B
        ELSE LET r == CHOOSE x \in S : TRUE
             IN Put(B (+) [x \in {[r EXCEPT !.role = role]} |-> M[r]], S \ {r})
  IN Put(rest, hit)

\* group.addMembers(players, { through }): a player without a row gets one
\* (role: the through role, else the column default), in one INSERT; a player
\* with a row has it updated to the through attributes, when there are any
GroupAddMembers(db, groupId, players, throughRole) ==
  LET current == RowsOf(db, groupId)
      associated(p) == \E r \in current : r.playerId = p.id
      unassociated == SelectSeq(players, LAMBDA p : ~associated(p))
      bulk == [i \in 1..Len(unassociated) |->
                 [playerId |-> unassociated[i].id, groupId |-> groupId,
                  role |-> IF throughRole # "" THEN throughRole ELSE "member"]]
      changed == {players[i].id : i \in {j \in 1..Len(players) : associated(players[j])}}
      ins == MembershipBulkCreate(db.Membership, bulk, FALSE)
      RECURSIVE Upd(_, _)
      Upd(M, S) ==
        IF S = {} THEN M
        ELSE LET q == CHOOSE x \in S : TRUE
             IN Upd(UpdateRole(M, groupId, q, throughRole), S \ {q})
  IN [ok |-> ins.ok,
      db |-> [db EXCEPT !.Membership =
                IF throughRole # "" THEN Upd(ins.M, changed) ELSE ins.M]]

\* players.filter(p => existingIds && !existingIds.includes(p.id))
newPlayers(players, existingIds) ==
  SelectSeq(players, LAMBDA p : p.id \notin existingIds)

leaderUsernames(members) ==
  {standardize(members[i].username) : i \in {j \in 1..Len(members) : members[j].role = "leader"}}

addMembers(db, id, verificationCode, members) ==
  LET found == GroupFindOneById(db, id)
      group == CHOOSE g \in found : TRUE
  IN IF verificationCode = 0 THEN Throw(db, "Invalid verification code.")
     ELSE IF Len(members) = 0 THEN Throw(db, "Invalid members list.")
     ELSE IF \E i \in 1..Len(members) : members[i].username = ""
     THEN Throw(db, "Invalid members list. Each array element must have a username key.")
     ELSE IF found = {} THEN Throw(db, "Group was not found.")
     ELSE IF ~verifyCode(group.verificationHash, verificationCode)
     THEN Throw(db, "Incorrect verification code.")
     ELSE
       LET existingIds == {p.id : p \in GroupGetMembers(db, id)}
           fc == findAllOrCreate(db.Player,
                                 [i \in 1..Len(members) |-> members[i].username])
           db1 == [db EXCEPT !.Player = fc.P]
           new == newPlayers(fc.players, existingIds)
       IN IF Len(new) = 0 THEN Throw(db1, "All players given are already members.")
          ELSE
            LET add1 == GroupAddMembers(db1, id, new, "")
                names == leaderUsernames(members)
                leaders == {m \in GroupGetMembers(add1.db, id) : m.username \in names}
                RECURSIVE ToSeq(_)
                ToSeq(S) == IF S = {} THEN <<>>
                            ELSE LET x == CHOOSE y \in S : TRUE
                                 IN <<x>> \o ToSeq(S \ {x})
                add2 == IF names # {}
                        THEN GroupAddMembers(add1.db, id, ToSeq(leaders), "leader")
                        ELSE add1
            IN IF ~add1.ok THEN StorageError(db1)
               ELSE Ok(add2.db, GroupGetMembers(add2.db, id))

\* group.removeMembers(players): DELETE of the rows of these players, counted
GroupRemoveMembers(db, groupId, players) ==
  LET hit == {r \in RowsOf(db, groupId) : \E p \in players : p.id = r.playerId}
      M == RestrictBag(db.Membership, DOMAIN db.Membership \ hit)
  IN [db |-> [db EXCEPT !.Membership = M],
      count |-> BagCardinality(db.Membership) - BagCardinality(M)]

\* removeMembers without the check of the number of rows removed
removeMembers_NoCountCheck(db, id, verificationCode, usernames) ==
  LET found == GroupFindOneById(db, id)
      group == CHOOSE g \in found : TRUE
      playersToRemove == findAll(db.Player, usernames)
      rm == GroupRemoveMembers(db, id, playersToRemove)
  IN IF verificationCode = 0 THEN Throw(db, "Invalid verification code.")
     ELSE IF Len(usernames) = 0 THEN Throw(db, "Invalid members list.")
     ELSE IF found = {} THEN Throw(db, "Group was not found.")
     ELSE IF ~verifyCode(group.verificationHash, verificationCode)
     THEN Throw(db, "Incorrect verification code.")
     ELSE IF playersToRemove = {} THEN Throw(db, "No valid tracked players were given.")
     ELSE Ok(rm.db, rm.count)

removeMembers(db, id, verificationCode, usernames) ==
  LET found == GroupFindOneById(db, id)
      group == CHOOSE g \in found : TRUE
      playersToRemove == findAll(db.Player, usernames)
      rm == GroupRemoveMembers(db, id, playersToRemove)
  IN IF verificationCode = 0 THEN Throw(db, "Invalid verification code.")
     ELSE IF Len(usernames) = 0 THEN Throw(db, "Invalid members list.")
     ELSE IF found = {} THEN Throw(db, "Group was not found.")
     ELSE IF ~verifyCode(group.verificationHash, verificationCode)
     THEN Throw(db, "Incorrect verification code.")
     ELSE IF playersToRemove = {} THEN Throw(db, "No valid tracked players were given.")
     ELSE IF rm.count = 0
     THEN Throw(db, "None of the players given were members of that group.")
     ELSE Ok(rm.db, rm.count)

\* Membership.findOne({ where: { groupId }, include: Player where username })
MembershipFindOne(db, groupId, username) ==
  {m \in RowsOf(db, groupId) :
     \E p \in db.Player : p.id = m.playerId /\ p.username = username}

\* changeRole without the check of the role held
changeRole_NoRoleCheck(db, id, username, role, verificationCode) ==
  LET found == GroupFindOneById(db, id)
      group == CHOOSE g \in found : TRUE
      hit == MembershipFindOne(db, id, standardize(username))
      membership == CHOOSE m \in hit : TRUE
      oldRole == membership.role
  IN IF username = "" THEN Throw(db, "Invalid username.")
     ELSE IF role = "" THEN Throw(db, "Invalid group role.")
     ELSE IF verificationCode = 0 THEN Throw(db, "Invalid verification code.")
     ELSE IF found = {} THEN Throw(db, "Group was not found.")
     ELSE IF ~verifyCode(group.verificationHash, verificationCode)
     THEN Throw(db, "Incorrect verification code.")
     ELSE IF hit = {} THEN Throw(db, "is not a member")
     ELSE Ok([db EXCEPT !.Membership =
                 UpdateRole(@, membership.groupId, membership.playerId, role)],
             [playerId |-> membership.playerId, role |-> role,
              newRole |-> role, oldRole |-> oldRole])

changeRole(db, id, username, role, verificationCode) ==
  LET found == GroupFindOneById(db, id)
      group == CHOOSE g \in found : TRUE
      hit == MembershipFindOne(db, id, standardize(username))
      membership == CHOOSE m \in hit : TRUE
      oldRole == membership.role
  IN IF username = "" THEN Throw(db, "Invalid username.")
     ELSE IF role = "" THEN Throw(db, "Invalid group role.")
     ELSE IF verificationCode = 0 THEN Throw(db, "Invalid verification code.")
     ELSE IF found = {} THEN Throw(db, "Group was not found.")
     ELSE IF ~verifyCode(group.verificationHash, verificationCode)
     THEN Throw(db, "Incorrect verification code.")
     ELSE IF hit = {} THEN Throw(db, "is not a member")
     ELSE IF membership.role = role THEN Throw(db, "already has the role")
     ELSE Ok([db EXCEPT !.Membership =
                 UpdateRole(@, membership.groupId, membership.playerId, role)],
             [playerId |-> membership.playerId, role |-> role,
              newRole |-> role, oldRole |-> oldRole])

(***************************************************************************)
(* The service as a state machine: one action per call.  result is the     *)
(* outcome of the last call that returned.                                 *)
(***************************************************************************)
NoArgs == [none |-> TRUE]
Idle == [op |-> "idle"]

Init ==
  /\ Group = {}
  /\ Membership = EmptyBag
  /\ Player = {}
  /\ nextGroupId = 1
  /\ pending = [slot \in 1..MaxPending |-> Idle]
  /\ args = NoArgs
  /\ result = [op |-> "none", status |-> "none", msg |-> "", ret |-> NoRet]

Commit(op, out) ==
  /\ Group' = out.db.Group
  /\ Membership' = out.db.Membership
  /\ Player' = out.db.Player
  /\ nextGroupId' = out.db.nextGroupId
  /\ result' = [op |-> op, status |-> out.status, msg |-> out.msg, ret |-> out.ret]
  /\ UNCHANGED args

MemberLists == SeqsUpTo(MemberEntries, MaxLen)
MemberArgs == {Undefined} \cup {Given(l) : l \in MemberLists}
UsernameLists == SeqsUpTo(Usernames, MaxLen) \ {<<>>}

\* generateVerification() draws the code of a new group from GenCodes;
\* callers present a code of Codes
GenCodes == {1}

\* edit is called with a new name, or with a new members list
EditArgs ==
  {[name |-> n, members |-> Undefined] : n \in RawNames \cup {<<>>}}
    \cup {[name |-> <<>>, members |-> m] : m \in MemberArgs}

Create(name, clanChat, members, code) ==
  /\ nextGroupId <= MaxGroupId
  /\ Commit("create", create(DB, name, clanChat, members, code))
  /\ UNCHANGED pending

Edit(id, name, clanChat, code, members) ==
  /\ Commit("edit", edit(DB, id, name, clanChat, code, members))
  /\ UNCHANGED pending

Destroy(id, code) ==
  /\ Commit("destroy", destroy(DB, id, code))
  /\ UNCHANGED pending

AddMembers(id, code, members) ==
  /\ Commit("addMembers", addMembers(DB, id, code, members))
  /\ UNCHANGED pending

RemoveMembers(id, code, usernames) ==
  /\ Commit("removeMembers", removeMembers(DB, id, code, usernames))
  /\ UNCHANGED pending

ChangeRole(id, username, role, code) ==
  /\ Commit("changeRole", changeRole(DB, id, username, role, code))
  /\ UNCHANGED pending

Next ==
  \/ \E name \in RawNames, members \in MemberArgs, code \in GenCodes :
        Create(name, <<>>, members, code)
  \/ \E id \in GroupIds, a \in EditArgs, code \in Codes :
        Edit(id, a.name, <<>>, code, a.members)
  \/ \E id \in GroupIds, code \in Codes : Destroy(id, code)
  \/ \E id \in GroupIds, code \in Codes, members \in MemberLists \ {<<>>} :
        AddMembers(id, code, members)
  \/ \E id \in GroupIds, code \in Codes, usernames \in UsernameLists :
        RemoveMembers(id, code, usernames)
  \/ \E id \in GroupIds, username \in Usernames, role \in Roles, code \in Codes :
        ChangeRole(id, username, role, code)

Spec == Init /\ [][Next]_vars

(***************************************************************************)
(* Claims over the sequential service (Spec)                               *)
(***************************************************************************)
SameTables(out) ==
  /\ out.db.Group = Group
  /\ out.db.Membership = Membership

Rejected(out) == out.status = "BadRequestError" /\ SameTables(out)

\* the role of the first entry of the list with that username, any letter case
FirstRole(members, name) ==
  LET i == CHOOSE j \in 1..Len(members) :
             /\ toLowerCase(members[j].username) = name
             /\ \A k \in 1..(j - 1) : toLowerCase(members[k].username) # name
  IN IF members[i].role # "" THEN members[i].role ELSE "member"

C4_WrongCodeRejected ==
  \A group \in Group, code \in Codes :
    ~verifyCode(group.verificationHash, code) =>
      /\ \A name \in RawNames \cup {<<>>}, clanChat \in ClanChats \cup {<<>>},
            members \in MemberArgs :
           Rejected(edit(DB, group.id, name, clanChat, code, members))
      /\ Rejected(destroy(DB, group.id, code))
      /\ \A members \in MemberLists \ {<<>>} :
           Rejected(addMembers(DB, group.id, code, members))
      /\ \A usernames \in UsernameLists :
           Rejected(removeMembers(DB, group.id, code, usernames))
      /\ \A username \in Usernames, role \in Roles :
           Rejected(changeRole(DB, group.id, username, role, code))

\* a call on a group with members was turned down for its code
C4_Witness ==
  /\ result.op = "destroy"
  /\ result.msg = "Incorrect verification code."
  /\ Membership # EmptyBag

\* the Membership rows of the group whose player has that username
RowsOfUser(groupId, username) ==
  {m \in DOMAIN Membership :
     /\ m.groupId = groupId
     /\ \E p \in Player : p.id = m.playerId /\ p.username = standardize(username)}

\* C5: with the right code, changeRole of a member to the role held fails and
\* changes no row; to another role it succeeds, changes the role of that row
\* only and returns the old and the new role; of a non-member it fails.
C5_ChangeRole ==
  \A group \in Group, code \in Codes, username \in Usernames, role \in Roles :
    verifyCode(group.verificationHash, code) =>
      LET out == changeRole(DB, group.id, username, role, code)
          rows == RowsOfUser(group.id, username)
      IN /\ rows = {} => out.status = "BadRequestError"
         /\ \A m \in rows :
              IF m.role = role
              THEN Rejected(out)
              ELSE /\ out.status = "ok"
                   /\ out.db.Membership =
                        RestrictBag(Membership, DOMAIN Membership \ {m})
                          (+) SetToBag({[m EXCEPT !.role = role]})
                   /\ out.ret.oldRole = m.role
                   /\ out.ret.newRole = role

C5_Witness ==
  /\ result.op = "changeRole"
  /\ result.status = "ok"
  /\ result.ret.oldRole = "member"
  /\ result.ret.newRole = "leader"
  /\ \E m \in DOMAIN Membership : m.playerId # result.ret.playerId

\* C6: with the right code, removeMembers of usernames none of which is a
\* member fails and changes no row; otherwise it removes the rows of the given
\* members, and no other, and returns their number.
C6_RemoveMembers ==
  \A group \in Group, code \in Codes, usernames \in UsernameLists :
    verifyCode(group.verificationHash, code) =>
      LET out == removeMembers(DB, group.id, code, usernames)
          rows == UNION {RowsOfUser(group.id, usernames[i]) : i \in 1..Len(usernames)}
      IN IF rows = {}
         THEN Rejected(out)
         ELSE /\ out.status = "ok"
              /\ out.db.Membership = RestrictBag(Membership, DOMAIN Membership \ rows)
              /\ out.ret = Cardinality(rows)

C6_Witness ==
  /\ result.op = "removeMembers"
  /\ result.status = "ok"
  /\ result.ret = 1
  /\ Membership # EmptyBag

(***************************************************************************)
(* Concurrent create and edit calls (SpecRace).  A call runs up to its     *)
(* lookup of the name (createCheck, editCheck), waits in pending, and runs *)
(* the rest (createWrite, editWrite) in a later step, so that the steps of *)
(* up to MaxPending calls interleave.                                      *)
(***************************************************************************)
RaceMemberArgs ==
  {Undefined,
   Given(<<[username |-> "a", role |-> "leader"]>>),
   Given(<<[username |-> "a", role |-> ""], [username |-> "A", role |-> "leader"],
           [username |-> "b", role |-> ""]>>)}

IdleSlots == {slot \in 1..MaxPending : pending[slot] = Idle}
FreeSlot == CHOOSE slot \in IdleSlots : \A other \in IdleSlots : slot <= other
PendingCreates == Cardinality({slot \in 1..MaxPending : pending[slot].op = "create"})

Returned(op, out) ==
  result' = [op |-> op, status |-> out.status, msg |-> out.msg, ret |-> out.ret]

CreateBegin(name, clanChat, members) ==
  /\ IdleSlots # {}
  /\ nextGroupId + PendingCreates <= MaxGroupId
  /\ LET chk == createCheck(DB, name)
     IN IF chk.status # "ok"
        THEN Returned("create", chk) /\ UNCHANGED pending
        ELSE /\ pending' = [pending EXCEPT ![FreeSlot] =
                              [op |-> "create", sanitizedName |-> sanitizeName(name),
                               clanChat |-> clanChat, members |-> members]]
             /\ UNCHANGED result
  /\ UNCHANGED <<Group, Membership, Player, nextGroupId, args>>

CreateFinish(slot, code) ==
  /\ pending[slot].op = "create"
  /\ Commit("create", createWrite(DB, pending[slot].sanitizedName, pending[slot].clanChat,
                                  pending[slot].members, code))
  /\ pending' = [pending EXCEPT ![slot] = Idle]

EditBegin(id, name, clanChat, code, members) ==
  /\ IdleSlots # {}
  /\ LET chk == editCheck(DB, id, name, clanChat, code, members)
     IN IF chk.status # "ok"
        THEN Returned("edit", chk) /\ UNCHANGED pending
        ELSE /\ pending' = [pending EXCEPT ![FreeSlot] =
                              [op |-> "edit", id |-> id, name |-> name,
                               clanChat |-> clanChat, code |-> code,
                               members |-> members]]
             /\ UNCHANGED result
  /\ UNCHANGED <<Group, Membership, Player, nextGroupId, args>>

EditFinish(slot) ==
  /\ pending[slot].op = "edit"
  /\ Commit("edit", editWrite(DB, pending[slot].id, pending[slot].name,
                              pending[slot].clanChat, pending[slot].code,
                              pending[slot].members))
  /\ pending' = [pending EXCEPT ![slot] = Idle]

NextRace ==
  \/ \E name \in RawNames, clanChat \in ClanChats \cup {<<>>}, members \in RaceMemberArgs :
        CreateBegin(name, clanChat, members)
  \/ \E slot \in 1..MaxPending, code \in GenCodes : CreateFinish(slot, code)
  \/ \E id \in GroupIds, name \in RawNames, code \in Codes :
        EditBegin(id, name, <<>>, code, Undefined)
  \/ \E slot \in 1..MaxPending : EditFinish(slot)

SpecRace == Init /\ [][NextRace]_vars

\* C3: no two groups have the same sanitized name.
C3_NameUnique ==
  \A g1, g2 \in Group :
    g1.id # g2.id => sanitizeName(g1.name) # sanitizeName(g2.name)

DBNext == [Group |-> Group', Membership |-> Membership', Player |-> Player',
           nextGroupId |-> nextGroupId']

\* the call of that slot returns in this step, with success
ReturnsOk(slot, op) ==
  /\ pending[slot].op = op
  /\ pending'[slot] = Idle
  /\ result'.status = "ok"

\* C1: setMembers(group, members) followed by getMembers(group.id) returns
\* exactly one member per case-insensitively distinct username of the list,
\* with the role of that username's first entry, "member" when it has none.
C1_SetThenGet ==
  [][\A slot \in 1..MaxPending :
       (ReturnsOk(slot, "create") /\ pending[slot].members.given) =>
         LET members == pending[slot].members.list
             got == getMembers(DBNext, nextGroupId)
             names == {toLowerCase(members[i].username) : i \in 1..Len(members)}
         IN /\ Cardinality(got) = Cardinality(names)
            /\ \A name \in names :
                 \E m \in got : m.username = name /\ m.role = FirstRole(members, name)
    ]_vars

\* C10: a successful edit changes only what the caller gave: without members
\* the Membership rows stay, without name the name stays, without clanChat the
\* clanChat stays.
C10_EditFrame ==
  [][\A slot \in 1..MaxPending :
       ReturnsOk(slot, "edit") =>
         LET call == pending[slot]
         IN \A old \in Group : old.id = call.id =>
              \E new \in Group' :
                /\ new.id = old.id
                /\ ~call.members.given => Membership' = Membership
                /\ call.name = <<>> => new.name = old.name
                /\ call.clanChat = <<>> => new.clanChat = old.clanChat
    ]_vars

(***************************************************************************)
(* calculateScore (SpecScore).  args holds what the function reads: the    *)
(* group, the list getMembersList returns, the competitions of the group   *)
(* and the clock.  The members list is given by its length, its number of  *)
(* leaders and the overall experience of each member.                      *)
(***************************************************************************)
MemberCounts == {0, 1, 9, 10, 49, 50}
LeaderCounts == {0, 1}
Experiences == {0, 29999999, 30000000, 100000000}
Clocks == {5}
Competitions == {[startsAt |-> 1, endsAt |-> 2], [startsAt |-> 3, endsAt |-> 7],
                 [startsAt |-> 8, endsAt |-> 9]}
StoredChats == {Null, <<>>, <<"c">>}

membersOf(a) ==
  [i \in 1..a.count |->
     [role |-> IF i <= a.leaders THEN "leader" ELSE "member",
      overallExperience |-> a.experience]]

\* JavaScript values of the average: a number, a string or NaN
JsNumber(v) == [t |-> "number", v |-> v]
JsString == [t |-> "string", v |-> 0]
JsNaN == [t |-> "NaN", v |-> 0]

\* acc + cur, cur an object: the string of acc followed by "[object Object]"
JsAddObject(acc) == JsString

\* x / n: a string that is no numeral gives NaN, and so does 0 / 0
JsDivide(x, n) ==
  IF x.t # "number" \/ (x.v = 0 /\ n = 0) THEN JsNaN
  ELSE IF n = 0 THEN [t |-> "Infinity", v |-> 0]
  ELSE JsNumber(x.v \div n)

\* x >= c: false of NaN
JsAtLeast(x, c) == x.t = "Infinity" \/ (x.t = "number" /\ x.v >= c)

\* members.reduce((acc, cur) => acc + cur, 0)
reduceMembers(members) ==
  LET F[i \in 0..Len(members)] ==
        IF i = 0 THEN JsNumber(0) ELSE JsAddObject(F[i - 1])
  IN F[Len(members)]

Bonus(cond, points) == IF cond THEN points ELSE 0

\* calculateScore with the bonus of 10 members left to the groups under 50
calculateScore_ElseIf(group, members, competitions, now) ==
  LET averageOverallExp == JsDivide(reduceMembers(members), Len(members))
  IN IF Len(members) = 0 THEN 0
     ELSE Bonus(\E i \in 1..Len(members) : members[i].role = "leader", 30)
        + Bonus(Len(members) >= 10 /\ Len(members) < 50, 20)
        + Bonus(Len(members) >= 50, 40)
        + Bonus(JsAtLeast(averageOverallExp, 30000000), 30)
        + Bonus(JsAtLeast(averageOverallExp, 100000000), 60)
        + Bonus(group.clanChat # Null /\ Len(group.clanChat) > 0, 50)
        + Bonus(group.verified, 100)
        + Bonus(\E c \in competitions : c.startsAt <= now /\ c.endsAt >= now, 50)
        + Bonus(\E c \in competitions : c.startsAt >= now, 30)

calculateScore(group, members, competitions, now) ==
  LET averageOverallExp == JsDivide(reduceMembers(members), Len(members))
  IN IF Len(members) = 0 THEN 0
     ELSE Bonus(\E i \in 1..Len(members) : members[i].role = "leader", 30)
        + Bonus(Len(members) >= 10, 20)
        + Bonus(Len(members) >= 50, 40)
        + Bonus(JsAtLeast(averageOverallExp, 30000000), 30)
        + Bonus(JsAtLeast(averageOverallExp, 100000000), 60)
        + Bonus(group.clanChat # Null /\ Len(group.clanChat) > 0, 50)
        + Bonus(group.verified, 100)
        + Bonus(\E c \in competitions : c.startsAt <= now /\ c.endsAt >= now, 50)
        + Bonus(\E c \in competitions : c.startsAt >= now, 30)

InitScore ==
  /\ Group = {}
  /\ Membership = EmptyBag
  /\ Player = {}
  /\ nextGroupId = 1
  /\ pending = [slot \in 1..MaxPending |-> Idle]
  /\ args \in [count : MemberCounts, leaders : LeaderCounts, experience : Experiences,
               clanChat : StoredChats, verified : BOOLEAN,
               competitions : SUBSET Competitions, now : Clocks]
  /\ args.leaders <= args.count
  /\ result = [op |-> "none", status |-> "none", msg |-> "", ret |-> NoRet]

CalculateScore ==
  /\ result.op = "none"
  /\ result' = [op |-> "calculateScore", status |-> "ok", msg |-> "",
                ret |-> calculateScore([clanChat |-> args.clanChat,
                                        verified |-> args.verified],
                                       membersOf(args), args.competitions, args.now)]
  /\ UNCHANGED <<Group, Membership, Player, nextGroupId, pending, args>>

NextScore == CalculateScore

SpecScore == InitScore /\ [][NextScore]_vars

\* the average overall experience of the members is at least c: with
\* q the sum of the quotients and r the sum of the remainders by the number
\* of members, the average is q + r / n
AverageAtLeast(members, c) ==
  LET n == Len(members)
      Q[i \in 0..n] ==
        IF i = 0 THEN 0 ELSE Q[i - 1] + (members[i].overallExperience \div n)
      R[i \in 0..n] ==
        IF i = 0 THEN 0 ELSE R[i - 1] + (members[i].overallExperience % n)
  IN n > 0 /\ Q[n] + (R[n] \div n) >= c

\* the sum of the bonuses whose condition holds
BonusSum(group, members, competitions, now) ==
    Bonus(\E i \in 1..Len(members) : members[i].role = "leader", 30)
  + Bonus(Len(members) >= 10, 20)
  + Bonus(Len(members) >= 50, 40)
  + Bonus(AverageAtLeast(members, 30000000), 30)
  + Bonus(AverageAtLeast(members, 100000000), 60)
  + Bonus(group.clanChat # Null /\ Len(group.clanChat) > 0, 50)
  + Bonus(group.verified, 100)
  + Bonus(\E c \in competitions : c.startsAt <= now /\ c.endsAt >= now, 50)
  + Bonus(\E c \in competitions : c.startsAt >= now, 30)

\* C7: calculateScore(group) is the sum of the bonuses whose condition holds.
C7_ScoreIsBonusSum ==
  result.op = "calculateScore" =>
    result.ret = BonusSum([clanChat |-> args.clanChat, verified |-> args.verified],
                          membersOf(args), args.competitions, args.now)

FullGroup ==
  /\ args.leaders >= 1
  /\ args.count >= 50
  /\ args.experience >= 100000000
  /\ args.clanChat = <<"c">>
  /\ args.verified
  /\ args.competitions = {[startsAt |-> 3, endsAt |-> 7], [startsAt |-> 8, endsAt |-> 9]}

MaxLimit == 2
MaxOffset == 1
Scores == {0, 30, 80}

\* list.slice(from, to), positions counted from 0
slice(list, from, to) ==
  LET hi == IF to < Len(list) THEN to ELSE Len(list)
  IN IF from >= hi THEN <<>> ELSE SubSeq(list, from + 1, hi)

\* list.sort((a, b) => b.score - a.score): by score, highest first, equal
\* scores in the order of the list
sortByScoreDesc(list) ==
  LET Insert(sorted, x) ==
        LET k == Cardinality({i \in 1..Len(sorted) : sorted[i].score >= x.score})
        IN SubSeq(sorted, 1, k) \o <<x>> \o SubSeq(sorted, k + 1, Len(sorted))
      F[i \in 0..Len(list)] == IF i = 0 THEN <<>> ELSE Insert(F[i - 1], list[i])
  IN F[Len(list)]

\* attachMembersCount: the number of Membership rows of each group, else 0
attachMembersCount(db, groups) ==
  [i \in 1..Len(groups) |->
     [id |-> groups[i].id, score |-> groups[i].score,
      memberCount |-> BagCardinality(RestrictBag(db.Membership, RowsOf(db, groups[i].id)))]]

\* memberships: the rows of the player, each with its group, as findAll
\* returned them
findForPlayer(db, memberships, pagination) ==
  LET unique == uniqBy(memberships, [m \in Range(memberships) |-> m.group.id])
      page == slice(unique, pagination.offset, pagination.offset + pagination.limit)
      groups == sortByScoreDesc([i \in 1..Len(page) |-> page[i].group])
  IN attachMembersCount(db, groups)

\* Membership.findAll({ where: { playerId }, include: Group }) in any order
MembershipsOf(db, playerId) ==
  LET rows == {[groupId |-> m.groupId, group |-> g] :
                 <<m, g>> \in {mg \in (DOMAIN db.Membership) \X db.Group :
                                 mg[1].playerId = playerId /\ mg[1].groupId = mg[2].id}}
  IN {l \in [1..Cardinality(rows) -> rows] : \A r \in rows : \E i \in DOMAIN l : l[i] = r}

InitFind ==
  /\ \E score \in [GroupIds -> Scores], joined \in SUBSET GroupIds :
       /\ Group = {[id |-> id, name |-> [i \in 1..id |-> "g"], clanChat |-> Null,
                    verificationHash |-> hashOf(1), verified |-> FALSE,
                    score |-> score[id]] : id \in GroupIds}
       /\ Membership = SetToBag({[groupId |-> id, playerId |-> 1, role |-> "member"] :
                                   id \in joined})
  /\ Player = {[id |-> 1, username |-> "a"]}
  /\ nextGroupId = MaxGroupId + 1
  /\ pending = [slot \in 1..MaxPending |-> Idle]
  /\ args = NoArgs
  /\ result = [op |-> "none", status |-> "none", msg |-> "", ret |-> NoRet]

FindForPlayer(playerId, memberships, pagination) ==
  /\ args' = [playerId |-> playerId, pagination |-> pagination]
  /\ result' = [op |-> "findForPlayer", status |-> "ok", msg |-> "",
                ret |-> findForPlayer(DB, memberships, pagination)]
  /\ UNCHANGED <<Group, Membership, Player, nextGroupId, pending>>

NextFind ==
  \E playerId \in {1}, limit \in 1..MaxLimit, offset \in 0..MaxOffset :
    \E memberships \in MembershipsOf(DB, playerId) :
      FindForPlayer(playerId, memberships, [limit |-> limit, offset |-> offset])

SpecFind == InitFind /\ [][NextFind]_vars

\* the groups of the player in an order of descending score
SortedGroupsOf(playerId) ==
  LET ids == {m.groupId : m \in {r \in DOMAIN Membership : r.playerId = playerId}}
      scoreOf(id) == (CHOOSE g \in Group : g.id = id).score
  IN {l \in [1..Cardinality(ids) -> ids] :
        /\ \A id \in ids : \E i \in DOMAIN l : l[i] = id
        /\ \A i, j \in DOMAIN l : i < j => scoreOf(l[i]) >= scoreOf(l[j])}

\* C9: findForPlayer returns the groups at the positions offset ..
\* offset+limit-1 of the list of the groups of the player sorted by score,
\* highest first.
C9_PageOfSorted ==
  result.op = "findForPlayer" =>
    \E sorted \in SortedGroupsOf(args.playerId) :
      [i \in 1..Len(result.ret) |-> result.ret[i].id]
        = slice(sorted, args.pagination.offset,
                args.pagination.offset + args.pagination.limit)

(***************************************************************************)
(* getMonthlyTopPlayer / getDeltas / getAchievements / getRecords          *)
(* The delta, achievement and record services are outside this module:     *)
(* answer is what the service returns, calls the requests made to it.      *)
(***************************************************************************)
PERIODS == {"week", "month"}
ALL_METRICS == {"overall", "attack"}

StatsGroupIds == 0..MaxGroupId
PeriodInputs == {"", "week", "decade"}
MetricInputs == {"", "overall", "cooking2"}
Paginations == {[limit |-> MaxLimit, offset |-> 0]}

\* what a service can answer for these players: nothing, or one entry
Answers(db) == {<<>>} \cup {<<[playerId |-> p.id]>> : p \in db.Player}

StatsThrow(db, msg) ==
  [db |-> db, status |-> "BadRequestError", msg |-> msg, ret |-> NoRet, calls |-> <<>>]
StatsOk(db, ret, calls) ==
  [db |-> db, status |-> "ok", msg |-> "", ret |-> ret, calls |-> calls]

\* memberships.map(m => m.playerId)
memberIdsOf(db, groupId) == {m.playerId : m \in RowsOf(db, groupId)}

getMonthlyTopPlayer(db, groupId, answer) ==
  LET memberIds == memberIdsOf(db, groupId)
  IN IF groupId = 0 THEN StatsThrow(db, "Invalid group id.")
     ELSE IF memberIds = {} THEN StatsOk(db, Null, <<>>)
     ELSE StatsOk(db, IF Len(answer) > 0 THEN answer[1] ELSE Null,
                  <<[service |-> "deltaService.getGroupLeaderboard",
                     metric |-> "overall", period |-> "month",
                     memberIds |-> memberIds,
                     pagination |-> [limit |-> 1, offset |-> 0]]>>)

getDeltas(db, groupId, period, metric, pagination, answer) ==
  LET memberIds == memberIdsOf(db, groupId)
  IN IF groupId = 0 THEN StatsThrow(db, "Invalid group id.")
     ELSE IF period = "" \/ period \notin PERIODS THEN StatsThrow(db, "Invalid period.")
     ELSE IF metric = "" \/ metric \notin ALL_METRICS THEN StatsThrow(db, "Invalid metric.")
     ELSE IF memberIds = {} THEN StatsThrow(db, "That group has no members.")
     ELSE StatsOk(db, answer,
                  <<[service |-> "deltaService.getGroupLeaderboard",
                     metric |-> metric, period |-> period,
                     memberIds |-> memberIds, pagination |-> pagination]>>)

getAchievements(db, groupId, pagination, answer) ==
  LET memberships == RowsOf(db, groupId)
      memberIds == memberIdsOf(db, groupId)
      memberMap(id) == CHOOSE p \in db.Player : p.id = id
  IN IF groupId = 0 THEN StatsThrow(db, "Invalid group id.")
     ELSE IF memberships = {} THEN StatsThrow(db, "That group has no members.")
     ELSE StatsOk(db, [i \in 1..Len(answer) |->
                         [playerId |-> answer[i].playerId,
                          player |-> memberMap(answer[i].playerId)]],
                  <<[service |-> "achievementService.findAllForGroup",
                     memberIds |-> memberIds, pagination |-> pagination]>>)

getRecords(db, groupId, metric, period, pagination, answer) ==
  LET memberships == RowsOf(db, groupId)
  IN IF groupId = 0 THEN StatsThrow(db, "Invalid group id.")
     ELSE IF period = "" \/ period \notin PERIODS THEN StatsThrow(db, "Invalid period.")
     ELSE IF metric = "" \/ metric \notin ALL_METRICS THEN StatsThrow(db, "Invalid metric.")
     ELSE IF memberships = {} THEN StatsThrow(db, "That group has no members.")
     ELSE StatsOk(db, answer,
                  <<[service |-> "recordService.getGroupLeaderboard",
                     metric |-> metric, period |-> period,
                     memberIds |-> memberIdsOf(db, groupId),
                     pagination |-> pagination]>>)

\* the stores of SpecStats: the groups 1..MaxGroupId, two players, and any
\* set of memberships between them
StatsPlayers == {[id |-> 1, username |-> "a"], [id |-> 2, username |-> "b"]}

InitStats ==
  \E keys \in SUBSET (GroupIds \X {1, 2}) :
    /\ Group = {[id |-> id, name |-> [i \in 1..id |-> "g"], clanChat |-> Null,
                 verificationHash |-> hashOf(1), verified |-> FALSE, score |-> 0] :
                   id \in GroupIds}
    /\ Membership = [r \in {[groupId |-> k[1], playerId |-> k[2], role |-> "member"] :
                              k \in keys} |-> 1]
    /\ Player = StatsPlayers
    /\ nextGroupId = MaxGroupId + 1
    /\ pending = [slot \in 1..MaxPending |-> Idle]
    /\ args = NoArgs
    /\ result = [op |-> "none", status |-> "none", msg |-> "", ret |-> NoRet,
                 calls |-> <<>>]

StatsCommit(op, a, out) ==
  /\ args' = a
  /\ result' = [op |-> op, status |-> out.status, msg |-> out.msg,
                ret |-> out.ret, calls |-> out.calls]
  /\ UNCHANGED <<Group, Membership, Player, nextGroupId, pending>>

GetMonthlyTopPlayer(groupId, answer) ==
  StatsCommit("getMonthlyTopPlayer",
              [groupId |-> groupId, period |-> "month", metric |-> "overall"],
              getMonthlyTopPlayer(DB, groupId, answer))

GetDeltas(groupId, period, metric, pagination, answer) ==
  StatsCommit("getDeltas",
              [groupId |-> groupId, period |-> period, metric |-> metric],
              getDeltas(DB, groupId, period, metric, pagination, answer))

GetAchievements(groupId, pagination, answer) ==
  /\ \A i \in 1..Len(answer) : answer[i].playerId \in memberIdsOf(DB, groupId)
  /\ StatsCommit("getAchievements",
                 [groupId |-> groupId, period |-> "month", metric |-> "overall"],
                 getAchievements(DB, groupId, pagination, answer))

GetRecords(groupId, metric, period, pagination, answer) ==
  StatsCommit("getRecords",
              [groupId |-> groupId, period |-> period, metric |-> metric],
              getRecords(DB, groupId, metric, period, pagination, answer))

NextStats ==
  \/ \E groupId \in StatsGroupIds, answer \in Answers(DB) :
        GetMonthlyTopPlayer(groupId, answer)
  \/ \E groupId \in StatsGroupIds, period \in PeriodInputs, metric \in MetricInputs,
        pagination \in Paginations, answer \in Answers(DB) :
        GetDeltas(groupId, period, metric, pagination, answer)
  \/ \E groupId \in StatsGroupIds, pagination \in Paginations, answer \in Answers(DB) :
        GetAchievements(groupId, pagination, answer)
  \/ \E groupId \in StatsGroupIds, period \in PeriodInputs, metric \in MetricInputs,
        pagination \in Paginations, answer \in Answers(DB) :
        GetRecords(groupId, metric, period, pagination, answer)

SpecStats == InitStats /\ [][NextStats]_vars

StatsOps == {"getMonthlyTopPlayer", "getDeltas", "getAchievements", "getRecords"}

\* the last call was a statistics call with a valid group id, period and
\* metric, on a group without members
EmptyGroupCall ==
  /\ result.op \in StatsOps
  /\ GroupFindOneById(DB, args.groupId) # {}
  /\ args.period \in PERIODS
  /\ args.metric \in ALL_METRICS
  /\ RowsOf(DB, args.groupId) = {}

\* C11: each of getMonthlyTopPlayer, getDeltas, getAchievements and
\* getRecords, called with a valid group id, period and metric for a group
\* that has zero members, fails with a validation error and makes no call to
\* the delta, achievement or record service.
C11_EmptyGroupFails ==
  EmptyGroupCall =>
    /\ result.status = "BadRequestError"
    /\ result.calls = <<>>

(***************************************************************************)
(* sanitizeName as a function of any name over letters, spaces,            *)
(* underscores and hyphens                                                 *)
(***************************************************************************)
MaxNameLen == 5
NameChars == {"a", " ", "_", "-"}
Names == SeqsUpTo(NameChars, MaxNameLen)

InitSanitize ==
  \E name \in Names :
    /\ Group = {}
    /\ Membership = EmptyBag
    /\ Player = {}
    /\ nextGroupId = 1
    /\ pending = [slot \in 1..MaxPending |-> Idle]
    /\ args = [name |-> name]
    /\ result = [op |-> "none", status |-> "none", msg |-> "", ret |-> NoRet]

SanitizeName ==
  /\ result.op = "none"
  /\ result' = [op |-> "sanitizeName", status |-> "ok", msg |-> "",
                ret |-> sanitizeName(args.name)]
  /\ UNCHANGED <<Group, Membership, Player, nextGroupId, pending, args>>

NextSanitize == SanitizeName

SpecSanitize == InitSanitize /\ [][NextSanitize]_vars

HasChar(s, c) == \E i \in 1..Len(s) : s[i] = c

\* C12: sanitizeName is idempotent, and its result has no underscore, no
\* hyphen, no leading or trailing space and no two adjacent spaces.
C12_SanitizeIdempotent ==
  result.op = "sanitizeName" =>
    LET s == result.ret
    IN /\ sanitizeName(s) = s
       /\ ~HasChar(s, "_")
       /\ ~HasChar(s, "-")
       /\ s # <<>> => (s[1] # " " /\ s[Len(s)] # " ")
       /\ \A i \in 1..(Len(s) - 1) : ~(s[i] = " " /\ s[i + 1] = " ")

\* a name with a leading space and an underscore next to a hyphen has been
\* sanitized to two words with one space between them
C12_Witness ==
  /\ result.op = "sanitizeName"
  /\ args.name = <<" ", "a", "_", "-", "a">>
  /\ result.ret = <<"a", " ", "a">>

(***************************************************************************)
(* addMembers, call by call (SpecAdd): groups are created with or without  *)
(* members and addMembers is called on them; args keeps the call and the   *)
(* Membership table it found until the caller has taken the result.        *)
(***************************************************************************)
CommitCall(op, out, call) ==
  /\ Group' = out.db.Group
  /\ Membership' = out.db.Membership
  /\ Player' = out.db.Player
  /\ nextGroupId' = out.db.nextGroupId
  /\ result' = [op |-> op, status |-> out.status, msg |-> out.msg, ret |-> out.ret]
  /\ args' = call
  /\ UNCHANGED pending

CreateCall(name, clanChat, members, code) ==
  /\ args = NoArgs
  /\ nextGroupId <= MaxGroupId
  /\ CommitCall("create", create(DB, name, clanChat, members, code), NoArgs)

AddMembersCall(id, code, members) ==
  /\ args = NoArgs
  /\ CommitCall("addMembers", addMembers(DB, id, code, members),
                [id |-> id, verificationCode |-> code, members |-> members,
                 before |-> Membership])

\* the caller has taken the result of addMembers
AddMembersReturn ==
  /\ args # NoArgs
  /\ args' = NoArgs
  /\ result' = [op |-> "none", status |-> "none", msg |-> "", ret |-> NoRet]
  /\ UNCHANGED <<Group, Membership, Player, nextGroupId, pending>>

NextAdd ==
  \/ \E name \in RawNames, members \in MemberArgs, code \in GenCodes :
        CreateCall(name, <<>>, members, code)
  \/ \E id \in GroupIds, code \in Codes, members \in MemberLists \ {<<>>} :
        AddMembersCall(id, code, members)
  \/ AddMembersReturn

SpecAdd == Init /\ [][NextAdd]_vars

\* the members the group of the last addMembers call had before the call,
\* and the members it has now
MembersBefore == GroupGetMembers([DB EXCEPT !.Membership = args.before], args.id)
MembersNow == GroupGetMembers(DB, args.id)

\* the last call was addMembers on a group that exists, with its code
AddMembersVerified ==
  /\ result.op = "addMembers"
  /\ \E group \in GroupFindOneById(DB, args.id) :
       verifyCode(group.verificationHash, args.verificationCode)

\* the players the list names who were not members before the call
NewNames ==
  {standardize(args.members[i].username) : i \in 1..Len(args.members)}
    \ {m.username : m \in MembersBefore}

LeaderFlagged(name) ==
  \E i \in 1..Len(args.members) :
    /\ standardize(args.members[i].username) = name
    /\ args.members[i].role = "leader"

\* C13: with a correct code, addMembers fails with a validation error and
\* adds no Membership row when every given username is a member already;
\* otherwise it adds one row for each given player who was not a member, with
\* the role "leader" if the player's entry says so and "member" if not.
C13_AddMembers ==
  AddMembersVerified =>
    IF NewNames = {}
    THEN result.status = "BadRequestError" /\ Membership = args.before
    ELSE /\ result.status = "ok"
         /\ {m.username : m \in MembersNow}
              = {m.username : m \in MembersBefore} \cup NewNames
         /\ BagCardinality(Membership)
              = BagCardinality(args.before) + Cardinality(NewNames)
         /\ \A m \in MembersNow : m.username \in NewNames =>
              m.role = IF LeaderFlagged(m.username) THEN "leader" ELSE "member"

\* C15: a successful addMembers call leaves the role of every player who was
\* a member of the group before the call as it was.
C15_AddMembersFrame ==
  (result.op = "addMembers" /\ result.status = "ok") =>
    \A old \in MembersBefore :
      \E now \in MembersNow : now.id = old.id /\ now.role = old.role

(***************************************************************************)
(* refreshScores (SpecRefresh): up to MaxPending runs at a time.  A run    *)
(* reads all the groups, then for every group computes the score and,      *)
(* later, writes it if it differs from the score the run read; the steps   *)
(* of the runs and of the groups of a run interleave freely.  args holds   *)
(* what calculateScore reads outside the store: the competitions of every  *)
(* group and the clock, which stay as they are during the runs.            *)
(***************************************************************************)
RECURSIVE SeqById(_)
SeqById(S) ==
  IF S = {} THEN <<>>
  ELSE LET first == CHOOSE x \in S : \A y \in S : x.id <= y.id
       IN <<first>> \o SeqById(S \ {first})

\* getMembersList(id): the members with their role and the overall experience
\* of their latest snapshot (0 without a snapshot), sorted by role
getMembersList(db, id) ==
  LET members == {[id |-> m.id, username |-> m.username, role |-> m.role,
                   overallExperience |-> 0] : m \in GroupGetMembers(db, id)}
  IN SeqById({m \in members : m.role = "leader"})
       \o SeqById({m \in members : m.role # "leader"})

\* group.update({ score }) when the new score differs from the score read,
\* as the task [group, newScore] has them
updateScore_Always(db, task) ==
  [written |-> TRUE,
   db |-> [db EXCEPT !.Group =
             {IF g.id = task.group.id THEN [g EXCEPT !.score = task.newScore] ELSE g :
                g \in db.Group}]]

updateScore(db, task) ==
  IF task.newScore # task.group.score
  THEN [written |-> TRUE,
        db |-> [db EXCEPT !.Group =
                  {IF g.id = task.group.id THEN [g EXCEPT !.score = task.newScore] ELSE g :
                     g \in db.Group}]]
  ELSE [written |-> FALSE, db |-> db]

\* a group as the runs find it: its stored score, and whether it has a leader
GroupProfiles ==
  {[score |-> 0, leader |-> FALSE], [score |-> 30, leader |-> FALSE],
   [score |-> 30, leader |-> TRUE]}

InitRefresh ==
  \E profile \in [GroupIds -> GroupProfiles] :
    /\ Group = {[id |-> id, name |-> [i \in 1..id |-> "g"], clanChat |-> Null,
                 verificationHash |-> hashOf(1), verified |-> FALSE,
                 score |-> profile[id].score] : id \in GroupIds}
    /\ Membership = [r \in {[groupId |-> id, playerId |-> 1, role |-> "leader"] :
                              id \in {i \in GroupIds : profile[i].leader}} |-> 1]
    /\ Player = {[id |-> 1, username |-> "a"]}
    /\ nextGroupId = MaxGroupId + 1
    /\ pending = [slot \in 1..MaxPending |-> Idle]
    /\ args = [now |-> 5,
               competitions |-> [id \in GroupIds |->
                  IF id = 1 THEN {[startsAt |-> 3, endsAt |-> 7]} ELSE {}]]
    /\ result = [op |-> "none", status |-> "none", msg |-> "", ret |-> NoRet]

InFlight(slot) == pending[slot] # Idle

\* const allGroups = await Group.findAll()
RefreshBegin(slot) ==
  /\ ~InFlight(slot)
  /\ pending' =
       [pending EXCEPT ![slot] =
          [op |-> "refreshScores",
           tasks |-> [id \in {g.id : g \in Group} |->
                        [group |-> CHOOSE g \in Group : g.id = id,
                         pc |-> "calculateScore", newScore |-> 0]]]]
  /\ UNCHANGED <<Group, Membership, Player, nextGroupId, args, result>>

\* const newScore = await calculateScore(group)
RefreshCalculate(slot, id) ==
  /\ InFlight(slot)
  /\ id \in DOMAIN pending[slot].tasks
  /\ pending[slot].tasks[id].pc = "calculateScore"
  /\ LET task == pending[slot].tasks[id]
         newScore == calculateScore(task.group, getMembersList(DB, id),
                                    args.competitions[id], args.now)
     IN pending' = [pending EXCEPT ![slot].tasks[id] =
                      [task EXCEPT !.pc = "update", !.newScore = newScore]]
  /\ UNCHANGED <<Group, Membership, Player, nextGroupId, args, result>>

\* if (newScore !== currentScore) await group.update({ score: newScore })
RefreshUpdate(slot, id) ==
  /\ InFlight(slot)
  /\ id \in DOMAIN pending[slot].tasks
  /\ pending[slot].tasks[id].pc = "update"
  /\ LET out == updateScore(DB, pending[slot].tasks[id])
     IN /\ Group' = out.db.Group
        /\ pending' = [pending EXCEPT ![slot].tasks[id].pc =
                         IF out.written THEN "written" ELSE "skipped"]
  /\ UNCHANGED <<Membership, Player, nextGroupId, args, result>>

\* Promise.all resolves: every group of the run is done.  The result says
\* whether the run wrote a score, and whether a run has finished while
\* another was under way
RefreshFinish(slot) ==
  /\ InFlight(slot)
  /\ \A id \in DOMAIN pending[slot].tasks :
       pending[slot].tasks[id].pc \in {"written", "skipped"}
  /\ pending' = [pending EXCEPT ![slot] = Idle]
  /\ result' = [op |-> "refreshScores", status |-> "ok", msg |-> "",
                ret |-> [written |-> \E id \in DOMAIN pending[slot].tasks :
                                        pending[slot].tasks[id].pc = "written",
                         concurrent |->
                           \/ \E o \in 1..MaxPending : o # slot /\ InFlight(o)
                           \/ result.op = "refreshScores" /\ result.ret.concurrent]]
  /\ UNCHANGED <<Group, Membership, Player, nextGroupId, args>>

NextRefresh ==
  \E slot \in 1..MaxPending :
    \/ RefreshBegin(slot)
    \/ \E id \in GroupIds : RefreshCalculate(slot, id)
    \/ \E id \in GroupIds : RefreshUpdate(slot, id)
    \/ RefreshFinish(slot)

SpecRefresh == InitRefresh /\ [][NextRefresh]_vars

\* C14: once all the refreshScores runs have finished, however their steps
\* interleaved, the stored score of every group is calculateScore of the
\* group; and a run writes the score of a group only when the score it
\* computed differs from the score it read.
C14_RefreshScores ==
  /\ (result.op = "refreshScores" /\ \A slot \in 1..MaxPending : ~InFlight(slot)) =>
       \A g \in Group :
         g.score = calculateScore(g, getMembersList(DB, g.id),
                                  args.competitions[g.id], args.now)
  /\ \A slot \in 1..MaxPending : InFlight(slot) =>
       \A id \in DOMAIN pending[slot].tasks :
         LET task == pending[slot].tasks[id]
         IN task.pc = "written" => task.newScore # task.group.score

\* all runs have finished, runs have been under way together, and the last
\* to finish wrote a score
C14_Witness ==
  /\ result.op = "refreshScores"
  /\ \A slot \in 1..MaxPending : ~InFlight(slot)
  /\ result.ret.concurrent
  /\ result.ret.written

====
